---- MODULE Spec2Model ----
(***************************************************************************)
(* Model of the job scheduler of aws-monitoring                            *)
(* (src/internal/scheduler/scheduler.go, executor.go).                     *)
(*                                                                         *)
(* Time is a discrete clock whose unit is 100ms, the tick interval of the  *)
(* scheduler's test configuration.  Every block of code that runs under    *)
(* s.mu is one atomic action; channel operations are actions of their own. *)
(* The job timeout only influences what the unit of work returns, and the  *)
(* unit of work is free to return any result at any time.                  *)
(*                                                                         *)
(* Job objects live on the heap and are reached through pointers.  The     *)
(* model keeps the object that s.jobs[id] points to inside jobs[id]; a     *)
(* pointer held by a tick snapshot or by an execution carries the flag     *)
(* "attached", which is TRUE exactly while s.jobs[job.ID] is still that    *)
(* same object.  Writes through a detached pointer reach an object no      *)
(* reader of the job table can see.                                        *)
(*                                                                         *)
(* The executeJob goroutines are kept as a bag of records.  The map        *)
(* s.activeJobs (job id -> cancel func) is carried by the flag "owner" of  *)
(* an execution: owner is TRUE exactly while s.activeJobs[job.ID] holds    *)
(* the cancel func of that execution.                                      *)
(*                                                                         *)
(* The second part models the resilient execution wrapper and its retry    *)
(* policies (src/internal/collectors/base.go, CollectWithRetry; the error  *)
(* handlers that follow base_test.go in the same file).  One collector is  *)
(* used by one caller at a time: a call of CollectWithRetry runs from one  *)
(* point where it can block (the unit of work, the backoff wait) to the    *)
(* next in one action, and the circuit breaker's methods are atomic.  The  *)
(* breaker reads a clock of its own whose unit is 30s, so that its         *)
(* cooldown of 60s is 2 units.  A nil pointer is <<>>, a pointer to x is   *)
(* <<x>>.  A string that is searched with strings.Contains is a sequence   *)
(* of pieces, and the search is for a run of pieces.                       *)
(*                                                                         *)
(* The third part models the health manager                                *)
(* (src/internal/health/manager.go).  Every block of code that runs under  *)
(* m.mu in one piece is one atomic action; RunChecks holds m.mu over its   *)
(* whole range over resultsChan, which takes several actions, so the       *)
(* holder of the lock is part of the state.  A check result is kept by     *)
(* its name and its status.                                                *)
(***************************************************************************)
EXTENDS Integers, Sequences, FiniteSets, Bags, TLC

\* ------------------------------------------------------------------ bounds
MaxTime == 4
MaxExecutions == 3
MaxCalls == 3
MaxRetries == 2
MaxCollects == 2
MaxClock == 6
MaxTicks == 2
MaxAttemptNo == 4
MaxThreads == 3
MaxLoopRuns == 2

\* --------------------------------------------------------------- constants
CollectorNames == {"ec2", "s3"}
Regions == {"r1", "r2", "r3"}
RegionLists == {{"r1"}, {"r2"}, {"r1", "r2", "r3"}}
Intervals == {2}
Grace == 1

ValidConfig ==
  [TickInterval |-> 1, MaxConcurrentJobs |-> 2, JobTimeout |-> 50,
   EnabledRegions |-> {"r1", "r2"}]

Configs ==
  { ValidConfig,
    [ValidConfig EXCEPT !.TickInterval = 0],
    [ValidConfig EXCEPT !.MaxConcurrentJobs = 0],
    [ValidConfig EXCEPT !.JobTimeout = 0] }

Registry == {"ec2"}

Status == {"starting", "running", "stopping", "stopped", "error"}

VARIABLES
  config,          \* s.config
  status,          \* s.status
  lastTickTime,    \* s.lastTickTime: <<>> is nil, <<t>> points to t
  jobs,            \* s.jobs: job id -> the ScheduledJob it points to
  completedJobs,   \* s.completedJobs
  failedJobs,      \* s.failedJobs
  stopCh,          \* TRUE when s.stopCh is closed
  doneCh,          \* TRUE when s.doneCh is closed
  jobSemaphore,    \* number of tokens in s.jobSemaphore
  loops,           \* the run() goroutines, in the order Start launched them
  execs,           \* the executeJob() goroutines (a bag), with s.activeJobs
  pcStop,          \* position of the caller inside Stop
  rootCtxDone,     \* the context given to Start is cancelled
  results,         \* number of ProcessResult calls received by the processor
  errors,          \* number of ProcessError calls received by the processor
  scheduleErr,     \* error code returned by the last ScheduleCollector call
  calls,           \* number of calls the clients have made
  panicked,        \* an unrecovered panic has ended the process
  now,             \* time.Now()
  collectorConfig, \* bc.collectorConfig
  errorHandler,    \* bc.errorHandler: which implementation is installed
  successfulCollections,  \* bc.successfulCollections
  errorCount,      \* bc.errorCount
  metricsCollected,  \* bc.metricsCollected
  wpc,             \* position of the caller inside CollectWithRetry
  attempt,         \* CollectWithRetry: attempt
  lastErr,         \* CollectWithRetry: lastErr
  res,             \* CollectWithRetry: result (Error and Metrics)
  ctxErr,          \* CollectWithRetry: ctx.Err() != nil
  invoked,         \* number of collectFunc calls made by the current call
  got,             \* what the successful attempt of the current call gave
  cancelSeen,      \* the current call found ctx cancelled before an attempt
  collects,        \* number of CollectWithRetry calls made
  cb,              \* the CircuitBreakerErrorHandler's fields
  answer,          \* what the last ShouldRetry call returned
  streak,          \* failures recorded with the breaker since the last
                   \* success recorded with it
  wins,            \* successes recorded with the breaker since the last
                   \* failure recorded with it
  clock,           \* time.Now() as the breaker reads it
  checkers,        \* m.checkers, by its keys
  checkResults,    \* m.results: checker name -> status of its last result
  running,         \* m.running
  mCtxDone,        \* m.ctx is cancelled
  mu,              \* m.mu: "free", or the RunChecks call that holds it
  hloop,           \* position of the goroutine launched by Manager.Start
  tickReady,       \* a tick is waiting in ticker.C
  runs,            \* the RunChecks calls in progress, by their caller
  health,          \* what the last GetHealth call returned
  loopRuns,        \* number of RunChecks calls made by the loop
  ticksTaken,      \* number of ticks the loop received from ticker.C
  ask,             \* a call of DefaultErrorHandler.ShouldRetry: its
                   \* arguments and what it returned
  racers,          \* goroutines inside recordFailure, by their position
                   \* and the failure count each has loaded
  threads          \* goroutines inside ScheduleCollector, executeJob and
                   \* Registry.Unregister: position and locks held

schedVars == <<config, status, lastTickTime, jobs, completedJobs, failedJobs,
               stopCh, doneCh, jobSemaphore, loops, execs, pcStop,
               rootCtxDone, results, errors, scheduleErr, calls, panicked,
               now>>

retryVars == <<collectorConfig, errorHandler, successfulCollections,
               errorCount, metricsCollected, wpc, attempt, lastErr, res,
               ctxErr, invoked, got, cancelSeen, collects, cb, answer,
               streak, wins, clock>>

healthVars == <<checkers, checkResults, running, mCtxDone, mu, hloop,
                tickReady, runs, health, loopRuns, ticksTaken>>

askVars == <<ask>>

raceVars == <<racers>>

lockVars == <<threads>>

vars == <<schedVars, retryVars, healthVars, askVars, raceVars, lockVars>>

\* what the actions of one part leave alone
notSched == <<retryVars, healthVars, askVars, raceVars, lockVars>>
notRetry == <<schedVars, healthVars, askVars, raceVars, lockVars>>
notHealth == <<schedVars, retryVars, askVars, raceVars, lockVars>>
notAsk == <<schedVars, retryVars, healthVars, raceVars, lockVars>>
notLock == <<schedVars, retryVars, healthVars, askVars, raceVars>>
notRace == <<schedVars, healthVars, askVars, lockVars, collectorConfig,
             errorHandler, successfulCollections, errorCount,
             metricsCollected, wpc, attempt, lastErr, res, ctxErr, invoked,
             got, cancelSeen, collects, answer, streak, wins, clock>>

\* --------------------------------------------------------------- helpers
Execs == BagToSet(execs)

\* number of executeJob goroutines alive
InFlight == BagCardinality(execs)

\* s.activeJobs, by its keys
activeJobs == {e.id : e \in {x \in Execs : x.owner}}

\* The job context is done when its cancel func ran or its parent context is
\* done.
CtxDone(e) == e.cancelled \/ rootCtxDone

Remove(f, id) == [x \in DOMAIN f \ {id} |-> f[x]]

RECURSIVE Count(_, _)
Count(B, S) ==
  IF S = {} THEN 0
  ELSE LET x == CHOOSE y \in S : TRUE IN B[x] + Count(B, S \ {x})

\* The bag B with every element e replaced by F[e].
MapBag(B, F) ==
  [y \in {F[e] : e \in DOMAIN B} |-> Count(B, {e \in DOMAIN B : F[e] = y})]

\* The bag of executions with one execution e replaced by e2.
Replace(e, e2) == (execs (-) SetToBag({e})) (+) SetToBag({e2})

\* Pointers to the object jobs[id] stop being attached when the table entry
\* is replaced or deleted.
Detach(p, ids) == [p EXCEPT !.attached = @ /\ p.id \notin ids]

DetachTodo(ids) ==
  [i \in DOMAIN loops |->
     [loops[i] EXCEPT !.todo = {Detach(j, ids) : j \in @}]]

\* NewMetricScheduler(config, ...)
NewMetricScheduler(cfg) ==
  /\ config = cfg
  /\ status = "stopped"
  /\ lastTickTime = <<>>
  /\ jobs = <<>>
  /\ completedJobs = 0
  /\ failedJobs = 0
  /\ stopCh = FALSE
  /\ doneCh = FALSE
  /\ jobSemaphore = 0
  /\ loops = <<>>
  /\ execs = EmptyBag
  /\ pcStop = "idle"
  /\ rootCtxDone = FALSE
  /\ results = 0
  /\ errors = 0
  /\ scheduleErr = "nil"
  /\ calls = 0
  /\ panicked = FALSE
  /\ now = 0

\* CircuitBreakerErrorHandler as NewCircuitBreakerErrorHandler builds it; the
\* zero time.Time of lastFailure is <<>>.
NewCircuitBreaker ==
  [state |-> "closed", failureCount |-> 0, successCount |-> 0,
   lastFailure |-> <<>>]

\* &CollectionResult{Metrics: []MetricData{}, ...} with Error nil
NewResult == [Error |-> <<>>, Metrics |-> <<>>]

\* NewBaseCollector with the given retry count, then SetErrorHandler(handler).
NewBaseCollector(handler, retries) ==
  /\ collectorConfig = [Retries |-> retries]
  /\ errorHandler = handler
  /\ successfulCollections = 0
  /\ errorCount = 0
  /\ metricsCollected = 0
  /\ wpc = "idle"
  /\ attempt = 0
  /\ lastErr = <<>>
  /\ res = NewResult
  /\ ctxErr = FALSE
  /\ invoked = 0
  /\ got = <<>>
  /\ cancelSeen = FALSE
  /\ collects = 0
  /\ cb = NewCircuitBreaker
  /\ answer = FALSE
  /\ streak = 0
  /\ wins = 0
  /\ clock = 0

\* m.results = make(map[string]CheckResult)
EmptyMap == [name \in {} |-> "unknown"]

\* A RunChecks call that is not in progress.
NoRun == [pc |-> "idle", pending |-> {}, ch |-> {}, stored |-> {}]

Owners == {"loop", "client"}

\* health.NewManager
NewManager ==
  /\ checkers = {}
  /\ checkResults = EmptyMap
  /\ running = FALSE
  /\ mCtxDone = FALSE
  /\ mu = "free"
  /\ hloop = "none"
  /\ tickReady = FALSE
  /\ runs = [o \in Owners |-> NoRun]
  /\ health = <<>>
  /\ loopRuns = 0
  /\ ticksTaken = 0

\* No call of ShouldRetry has been made.
NoAsk == <<>>

\* No goroutine is inside the breaker or inside a locked block that the
\* lock model follows.
NoOthers ==
  /\ racers = <<>>
  /\ threads = <<>>

Init ==
  /\ \E cfg \in Configs : NewMetricScheduler(cfg)
  /\ NewBaseCollector("default", 0)
  /\ NewManager
  /\ ask = NoAsk
  /\ NoOthers

\* ------------------------------------------------------------ Start / Stop
validateConfig ==
  IF config.TickInterval <= 0 THEN "INVALID_TICK_INTERVAL"
  ELSE IF config.MaxConcurrentJobs <= 0 THEN "INVALID_MAX_CONCURRENT_JOBS"
  ELSE IF config.JobTimeout <= 0 THEN "INVALID_JOB_TIMEOUT"
  ELSE "nil"

\* go s.run(ctx), up to ticker := time.NewTicker(s.config.TickInterval)
NewLoop == [pc |-> "select", tickAt |-> now + config.TickInterval, todo |-> {}]

Start ==
  /\ ~panicked
  /\ calls < MaxCalls
  /\ calls' = calls + 1
  /\ IF status = "running"
     THEN UNCHANGED <<status, loops>>
     ELSE IF validateConfig # "nil"
     THEN /\ status' = "error"
          /\ UNCHANGED loops
     ELSE /\ status' = "running"
          /\ loops' = Append(loops, NewLoop)
  /\ UNCHANGED <<config, lastTickTime, jobs, completedJobs, failedJobs,
                 stopCh, doneCh, jobSemaphore, execs, pcStop, rootCtxDone,
                 results, errors, scheduleErr, panicked, now>>
  /\ UNCHANGED notSched

\* Stop up to the select: a scheduler that is not running returns nil at
\* once; a running one becomes "stopping" and s.stopCh is closed, which
\* panics when the channel is closed already.
StopBegin ==
  /\ ~panicked
  /\ calls < MaxCalls
  /\ calls' = calls + 1
  /\ pcStop = "idle"
  /\ IF status # "running"
     THEN UNCHANGED <<status, pcStop, stopCh, panicked>>
     ELSE /\ status' = "stopping"
          /\ IF stopCh
             THEN panicked' = TRUE /\ UNCHANGED <<stopCh, pcStop>>
             ELSE stopCh' = TRUE /\ pcStop' = "wait" /\ UNCHANGED panicked
  /\ UNCHANGED <<config, lastTickTime, jobs, completedJobs, failedJobs,
                 doneCh, jobSemaphore, loops, execs, rootCtxDone, results,
                 errors, scheduleErr, now>>
  /\ UNCHANGED notSched

\* select, case <-ctx.Done(): the caller's deadline elapses first and Stop
\* returns a timeout error.
StopTimeout ==
  /\ ~panicked
  /\ pcStop = "wait"
  /\ pcStop' = "idle"
  /\ UNCHANGED <<config, status, lastTickTime, jobs, completedJobs,
                 failedJobs, stopCh, doneCh, jobSemaphore, loops, execs,
                 rootCtxDone, results, errors, scheduleErr, calls, panicked,
                 now>>
  /\ UNCHANGED notSched

\* for jobID, cancel := range s.activeJobs { cancel() }
CancelActive(e) == [e EXCEPT !.cancelled = @ \/ e.owner]

\* A Stop that forgets s.status = StatusStopped.
StatusAfterStop_Stopping == "stopping"

StatusAfterStop == "stopped"

\* select, case <-s.doneCh, and the second locked block of Stop: cancel the
\* active jobs, become "stopped", return nil.
StopFinal ==
  /\ ~panicked
  /\ pcStop = "wait"
  /\ doneCh
  /\ execs' = MapBag(execs, [e \in DOMAIN execs |-> CancelActive(e)])
  /\ status' = StatusAfterStop
  /\ pcStop' = "idle"
  /\ UNCHANGED <<config, lastTickTime, jobs, completedJobs, failedJobs,
                 stopCh, doneCh, jobSemaphore, loops, rootCtxDone, results,
                 errors, scheduleErr, calls, panicked, now>>
  /\ UNCHANGED notSched

\* -------------------------------------------------------------- run / tick
\* run: select, case <-ctx.Done() or case <-s.stopCh; the deferred
\* close(s.doneCh) panics when the channel is already closed.
LoopExit(i) ==
  /\ ~panicked
  /\ loops[i].pc = "select"
  /\ rootCtxDone \/ stopCh
  /\ loops' = [loops EXCEPT ![i].pc = "exited"]
  /\ IF doneCh
     THEN panicked' = TRUE /\ UNCHANGED doneCh
     ELSE doneCh' = TRUE /\ UNCHANGED panicked
  /\ UNCHANGED <<config, status, lastTickTime, jobs, completedJobs,
                 failedJobs, stopCh, jobSemaphore, execs, pcStop,
                 rootCtxDone, results, errors, scheduleErr, calls, now>>
  /\ UNCHANGED notSched

\* job.Enabled && now.After(job.NextRun) && job not in s.activeJobs
Due(id) ==
  /\ jobs[id].Enabled
  /\ now > jobs[id].NextRun
  /\ id \notin activeJobs

\* The ticker fires every TickInterval after its creation.
NextTick(tickAt) ==
  tickAt + config.TickInterval * (((now - tickAt) \div config.TickInterval) + 1)

\* run: select, case <-ticker.C, and the locked block of tick.
LoopTick(i) ==
  /\ ~panicked
  /\ loops[i].pc = "select"
  /\ now >= loops[i].tickAt
  /\ lastTickTime' = <<now>>
  /\ LET jobsToRun == {[id |-> id, attached |-> TRUE] :
                          id \in {x \in DOMAIN jobs : Due(x)}}
     IN loops' = [loops EXCEPT
                    ![i].tickAt = NextTick(@),
                    ![i].todo = jobsToRun,
                    ![i].pc = IF jobsToRun = {} THEN "select" ELSE "dispatch"]
  /\ UNCHANGED <<config, status, jobs, completedJobs, failedJobs, stopCh,
                 doneCh, jobSemaphore, execs, pcStop, rootCtxDone, results,
                 errors, scheduleErr, calls, panicked, now>>
  /\ UNCHANGED notSched

\* A send that never finds the semaphore full.
TryAcquire_Unbounded == TRUE

\* select { case s.jobSemaphore <- struct{}{}: ... default: ... }
TryAcquire == jobSemaphore < config.MaxConcurrentJobs

\* go s.executeJob(ctx, job)
NewExec(j) ==
  [pc |-> "start", id |-> j.id, attached |-> j.attached, owner |-> FALSE,
   cancelled |-> FALSE, panicking |-> FALSE]

\* A tick that keeps the job it cannot run as a pending execution.
Skipped_Queued(j) == execs (+) SetToBag({NewExec(j)})

\* select, default: the job is skipped; the executions are those there were
Skipped(j) == execs

\* tick, one iteration of the loop over jobsToRun (in no fixed order).
LoopDispatch(i) ==
  /\ ~panicked
  /\ loops[i].pc = "dispatch"
  /\ \E j \in loops[i].todo :
       /\ IF TryAcquire
          THEN /\ completedJobs + failedJobs + InFlight < MaxExecutions
               /\ jobSemaphore' = jobSemaphore + 1
               /\ execs' = execs (+) SetToBag({NewExec(j)})
          ELSE /\ execs' = Skipped(j)
               /\ UNCHANGED jobSemaphore
       /\ loops' = [loops EXCEPT
                      ![i].todo = @ \ {j},
                      ![i].pc = IF loops[i].todo = {j} THEN "select"
                                ELSE "dispatch"]
  /\ UNCHANGED <<config, status, lastTickTime, jobs, completedJobs,
                 failedJobs, stopCh, doneCh, pcStop, rootCtxDone, results,
                 errors, scheduleErr, calls, panicked, now>>
  /\ UNCHANGED notSched

\* -------------------------------------------------------------- executeJob
\* delete(s.activeJobs, id), seen from execution x
Disown(x, id) == [x EXCEPT !.owner = @ /\ x.id # id]

\* executeJob up to the first locked block: derive the job context and
\* s.activeJobs[job.ID] = cancel.  The entry now holds the cancel func of e,
\* whatever it held before.
ExecRegister(e) ==
  /\ ~panicked
  /\ e.pc = "start"
  /\ LET others == execs (-) SetToBag({e})
     IN execs' = MapBag(others, [x \in DOMAIN others |-> Disown(x, e.id)])
                 (+) SetToBag({[e EXCEPT !.pc = "run", !.owner = TRUE]})
  /\ UNCHANGED <<config, status, lastTickTime, jobs, completedJobs,
                 failedJobs, stopCh, doneCh, jobSemaphore, loops, pcStop,
                 rootCtxDone, results, errors, scheduleErr, calls, panicked, now>>
  /\ UNCHANGED notSched

\* DefaultJobExecutor.ExecuteJob: an unknown collector gives an error result,
\* otherwise the result is whatever collector.Collect returns.
ExecuteJob(id) ==
  IF id[1] \notin Registry THEN {"err"} ELSE {"ok", "err"}

\* An update that leaves job.LastResult as it was.
UpdatedJob_NoResult(job, result) ==
  [job EXCEPT !.LastRun = <<now>>,
              !.NextRun = now + job.Interval]

\* An update that subtracts the interval.
UpdatedJob_Backward(job, result) ==
  [job EXCEPT !.LastRun = <<now>>,
              !.NextRun = now - job.Interval,
              !.LastResult = result]

\* job.LastRun = &now; job.NextRun = now.Add(job.Interval);
\* job.LastResult = result
UpdatedJob(job, result) ==
  [job EXCEPT !.LastRun = <<now>>,
              !.NextRun = now + job.Interval,
              !.LastResult = result]

\* A test that takes every result for a success.
Failed_Never(result) == FALSE

\* result.Error != nil
Failed(result) == result = "err"

\* s.executor.ExecuteJob(jobCtx, job) returns a result, then the second
\* locked block of executeJob updates the job, counts and routes the result.
ExecFinish(e) ==
  /\ ~panicked
  /\ e.pc = "run"
  /\ \E result \in ExecuteJob(e.id) :
       /\ jobs' = IF e.attached
                  THEN [jobs EXCEPT ![e.id] = UpdatedJob(@, result)]
                  ELSE jobs
       /\ IF Failed(result)
          THEN /\ failedJobs' = failedJobs + 1
               /\ errors' = errors + 1
               /\ UNCHANGED <<completedJobs, results>>
          ELSE /\ completedJobs' = completedJobs + 1
               /\ results' = results + 1
               /\ UNCHANGED <<failedJobs, errors>>
  /\ execs' = Replace(e, [e EXCEPT !.pc = "cleanup"])
  /\ UNCHANGED <<config, status, lastTickTime, stopCh, doneCh, jobSemaphore,
                 loops, pcStop, rootCtxDone, scheduleErr, calls, panicked, now>>
  /\ UNCHANGED notSched

\* collector.Collect panics inside s.executor.ExecuteJob: nothing recovers
\* it, the deferred calls of executeJob run while it unwinds.
ExecPanic(e) ==
  /\ ~panicked
  /\ e.pc = "run"
  /\ e.id[1] \in Registry
  /\ execs' = Replace(e, [e EXCEPT !.pc = "cleanup", !.panicking = TRUE])
  /\ UNCHANGED <<config, status, lastTickTime, jobs, completedJobs,
                 failedJobs, stopCh, doneCh, jobSemaphore, loops, pcStop,
                 rootCtxDone, results, errors, scheduleErr, calls, panicked, now>>
  /\ UNCHANGED notSched

\* A deferred cleanup that never gets past its locked block.
AfterCleanup_Stuck == "cleanup"

\* After the deferred delete the goroutine goes on to its remaining
\* deferred calls.
AfterCleanup == "release"

\* A deferred delete that runs after a slot was given back already.
SlotsAfterDelete_GivenBack == jobSemaphore - 1

\* The deferred delete runs before the deferred <-s.jobSemaphore: every
\* slot is still held.
SlotsAfterDelete == jobSemaphore

\* deferred: delete(s.activeJobs, job.ID)
ExecCleanup(e) ==
  /\ ~panicked
  /\ e.pc = "cleanup"
  /\ LET others == execs (-) SetToBag({e})
     IN execs' = MapBag(others, [x \in DOMAIN others |-> Disown(x, e.id)])
                 (+) SetToBag({[e EXCEPT !.pc = AfterCleanup,
                                         !.owner = FALSE]})
  /\ jobSemaphore' = SlotsAfterDelete
  /\ UNCHANGED <<config, status, lastTickTime, jobs, completedJobs,
                 failedJobs, stopCh, doneCh, loops, pcStop,
                 rootCtxDone, results, errors, scheduleErr, calls, panicked, now>>
  /\ UNCHANGED notSched

\* deferred: cancel(); <-s.jobSemaphore.  The goroutine ends; a panic that
\* is still unwinding ends the process.
ExecRelease(e) ==
  /\ ~panicked
  /\ e.pc = "release"
  /\ jobSemaphore' = jobSemaphore - 1
  /\ panicked' = e.panicking
  /\ execs' = execs (-) SetToBag({e})
  /\ UNCHANGED <<config, status, lastTickTime, jobs, completedJobs,
                 failedJobs, stopCh, doneCh, loops, pcStop, rootCtxDone,
                 results, errors, scheduleErr, calls, now>>
  /\ UNCHANGED notSched

\* ------------------------------------------------- schedule / unschedule
\* A lookup that finds every name.
CollectorExists_Always(name) == TRUE

\* s.registry.Get(collectorName)
CollectorExists(name) == name \in Registry

\* the filter by s.config.EnabledRegions
FilterRegions(regions) ==
  IF config.EnabledRegions # {} THEN regions \cap config.EnabledRegions
  ELSE regions

NewJob(interval) ==
  [Interval |-> interval, NextRun |-> now + Grace, Enabled |-> TRUE,
   LastRun |-> <<>>, LastResult |-> "none"]

ScheduleCollector(name, regions, interval) ==
  /\ ~panicked
  /\ calls < MaxCalls
  /\ calls' = calls + 1
  /\ IF ~CollectorExists(name)
     THEN /\ scheduleErr' = "COLLECTOR_NOT_FOUND"
          /\ UNCHANGED <<jobs, execs, loops>>
     ELSE LET ids == {<<name, r>> : r \in FilterRegions(regions)}
          IN /\ jobs' = [id \in DOMAIN jobs \cup ids |->
                           IF id \in ids THEN NewJob(interval) ELSE jobs[id]]
             /\ execs' = MapBag(execs, [e \in DOMAIN execs |-> Detach(e, ids)])
             /\ loops' = DetachTodo(ids)
             /\ scheduleErr' = "nil"
  /\ UNCHANGED <<config, status, lastTickTime, completedJobs, failedJobs,
                 stopCh, doneCh, jobSemaphore, pcStop, rootCtxDone, results,
                 errors, panicked, now>>
  /\ UNCHANGED notSched

\* if cancel, running := s.activeJobs[jobID]; running { cancel();
\* delete(s.activeJobs, jobID) }, then delete(s.jobs, jobID)
Unscheduled(e, id) ==
  IF e.id = id
  THEN [e EXCEPT !.cancelled = @ \/ e.owner, !.owner = FALSE,
                 !.attached = FALSE]
  ELSE e

UnscheduleCollector(name, region) ==
  /\ ~panicked
  /\ calls < MaxCalls
  /\ calls' = calls + 1
  /\ LET id == <<name, region>>
     IN IF id \in DOMAIN jobs
        THEN /\ execs' = MapBag(execs,
                                [e \in DOMAIN execs |-> Unscheduled(e, id)])
             /\ jobs' = Remove(jobs, id)
             /\ loops' = DetachTodo({id})
        ELSE UNCHANGED <<jobs, execs, loops>>
  /\ UNCHANGED <<config, status, lastTickTime, completedJobs, failedJobs,
                 stopCh, doneCh, jobSemaphore, pcStop, rootCtxDone, results,
                 errors, scheduleErr, panicked, now>>
  /\ UNCHANGED notSched

\* ------------------------------------------------------------- observers
\* GetScheduledJobs: copies of all jobs, taken under the read lock
GetScheduledJobs == {jobs[id] : id \in DOMAIN jobs}

\* GetInfo, taken under the read lock
GetInfo ==
  [Status |-> status, JobCount |-> Cardinality(DOMAIN jobs),
   ActiveJobs |-> Cardinality(activeJobs), CompletedJobs |-> completedJobs,
   FailedJobs |-> failedJobs, LastTickTime |-> lastTickTime]

\* A Health that returns nil for the statuses it does not name.
Health_NilByDefault ==
  IF status = "running"
  THEN IF /\ lastTickTime # <<>>
          /\ now - lastTickTime[1] > 2 * config.TickInterval
       THEN "SCHEDULER_NOT_TICKING" ELSE "nil"
  ELSE IF status = "error" THEN "SCHEDULER_ERROR"
  ELSE IF status = "stopped" THEN "SCHEDULER_STOPPED"
  ELSE "nil"

\* Health: the error code returned, "nil" for no error
Health ==
  IF status = "running"
  THEN IF /\ lastTickTime # <<>>
          /\ now - lastTickTime[1] > 2 * config.TickInterval
       THEN "SCHEDULER_NOT_TICKING" ELSE "nil"
  ELSE IF status = "error" THEN "SCHEDULER_ERROR"
  ELSE IF status = "stopped" THEN "SCHEDULER_STOPPED"
  ELSE "SCHEDULER_NOT_READY"

\* ------------------------------------------------------------ environment
\* The caller of Start cancels the context it passed.
CancelRootCtx ==
  /\ ~panicked
  /\ calls < MaxCalls
  /\ calls' = calls + 1
  /\ ~rootCtxDone
  /\ rootCtxDone' = TRUE
  /\ UNCHANGED <<config, status, lastTickTime, jobs, completedJobs,
                 failedJobs, stopCh, doneCh, jobSemaphore, loops, execs,
                 pcStop, results, errors, scheduleErr, panicked, now>>
  /\ UNCHANGED notSched

AdvanceClock ==
  /\ ~panicked
  /\ now < MaxTime
  /\ now' = now + 1
  /\ UNCHANGED <<config, status, lastTickTime, jobs, completedJobs,
                 failedJobs, stopCh, doneCh, jobSemaphore, loops, execs,
                 pcStop, rootCtxDone, results, errors, scheduleErr, calls, panicked>>
  /\ UNCHANGED notSched

\* The caller starts a scheduler that has not been stopped before.
FirstStart == ~stopCh /\ Start

Next ==
  \/ FirstStart
  \/ StopBegin
  \/ StopTimeout
  \/ StopFinal
  \/ \E i \in DOMAIN loops : LoopExit(i)
  \/ \E i \in DOMAIN loops : LoopTick(i)
  \/ \E i \in DOMAIN loops : LoopDispatch(i)
  \/ \E e \in Execs : ExecRegister(e)
  \/ \E e \in Execs : ExecFinish(e)
  \/ \E e \in Execs : ExecPanic(e)
  \/ \E e \in Execs : ExecCleanup(e)
  \/ \E e \in Execs : ExecRelease(e)
  \/ \E name \in CollectorNames, regions \in RegionLists,
        interval \in Intervals : ScheduleCollector(name, regions, interval)
  \/ \E name \in CollectorNames, region \in Regions :
        UnscheduleCollector(name, region)
  \/ CancelRootCtx
  \/ AdvanceClock

Spec == Init /\ [][Next]_vars

\* The Go runtime schedules every runnable goroutine: an executeJob
\* goroutine whose unit of work has returned runs its deferred calls.
LiveSpec ==
  /\ Spec
  /\ WF_vars(\E e \in Execs : ExecCleanup(e))
  /\ WF_vars(\E e \in Execs : ExecRelease(e))

\* ------------------------------------------------------- classified errors
\* A string is a sequence of pieces, so that strings.Contains is the search
\* for a run of pieces.
\* errors.New(errorType, code, message)
New(errorType, code, message) ==
  [Type |-> errorType, Code |-> code, Message |-> message,
   Retryable |-> FALSE]

\* errors.WithRetryable(err, retryable); err is a pointer
WithRetryable(err, retryable) ==
  IF err = <<>> THEN err ELSE <<[err[1] EXCEPT !.Retryable = retryable]>>

\* errors.NewNetworkError("CONNECTION_ERROR", ...)
NetworkError ==
  WithRetryable(<<New("network", <<"CONNECTION_ERROR">>,
                      <<"connection failed">>)>>, TRUE)[1]

\* errors.NewPermissionError(...)
PermissionError ==
  New("permission", <<"ACCESS_DENIED">>, <<"insufficient permissions">>)

\* errors.Wrap(err, ErrorTypeInternal, "COLLECTION_ERROR", ...) of an error
\* that is not an *errors.Error
CollectionError ==
  New("internal", <<"COLLECTION_ERROR">>, <<"collection failed">>)

\* errors.Wrap(ctx.Err(), ErrorTypeInternal, "CONTEXT_CANCELLED", ...)
ContextCancelled ==
  New("internal", <<"CONTEXT_CANCELLED">>, <<"context cancelled">>)

\* an error that is not an *errors.Error
PlainError == New("plain", <<>>, <<>>)

\* What collectFunc can return as its error: nil, an *errors.Error, or an
\* error of another type.
UnitErrors == {<<>>, <<NetworkError>>, <<PermissionError>>, <<PlainError>>}

MetricLists == {<<>>, <<"m1">>}

\* (metrics, err) as collectFunc returns them
Outcomes == [metrics : MetricLists, err : UnitErrors]

\* lastErr after the type switch on err
Classified(err) == IF err = <<PlainError>> THEN <<CollectionError>> ELSE err

\* --------------------------------------------------------- retry policies
maxRetries == 3

retryableAWSCodes ==
  {<<"InternalError">>, <<"InternalFailure">>, <<"ServiceUnavailable">>,
   <<"Throttling">>, <<"Throttling", "Exception">>,
   <<"RequestLimitExceeded">>, <<"RequestTimeout">>,
   <<"RequestTimeout", "Exception">>, <<"PriorRequestNotComplete">>,
   <<"ConnectionError">>, <<"NetworkError">>, <<"DNSError">>,
   <<"TimeoutError">>, <<"RequestExpired">>,
   <<"ServiceTemporarilyUnavailable">>}

retryablePatterns ==
  {<<"connection reset">>, <<"connection timeout">>,
   <<"connection refused">>, <<"no such host">>,
   <<"network is unreachable">>, <<"temporary failure">>,
   <<"service temporarily unavailable">>, <<"internal server error">>,
   <<"bad gateway">>, <<"gateway timeout">>}

retryableInternalCodes ==
  {<<"CONTEXT_CANCELLED">>, <<"TIMEOUT">>, <<"NETWORK_ERROR">>,
   <<"TEMPORARY_FAILURE">>}

\* strings.Contains(s, substr)
Contains(s, substr) ==
  \E i \in 0..(Len(s) - Len(substr)) :
    SubSeq(s, i + 1, i + Len(substr)) = substr

\* strings.ToLower on one piece
LowerPiece(piece) ==
  CASE piece = "Connection Reset" -> "connection reset"
    [] piece = "Throttling" -> "throttling"
    [] piece = "Exception" -> "exception"
    [] piece = "AccessDenied" -> "accessdenied"
    [] piece = "Bad Gateway" -> "bad gateway"
    [] OTHER -> piece

RECURSIVE ToLower(_)
\* strings.ToLower(s)
ToLower(s) ==
  IF s = <<>> THEN <<>> ELSE <<LowerPiece(Head(s))>> \o ToLower(Tail(s))

\* A match that looks at the code of the error only.
shouldRetryAWSError_CodeOnly(e) ==
  \E code \in retryableAWSCodes : Contains(e.Code, code)

\* DefaultErrorHandler.shouldRetryAWSError
shouldRetryAWSError(e) ==
  \/ \E code \in retryableAWSCodes :
       Contains(e.Code, code) \/ Contains(e.Message, code)
  \/ \E pattern \in retryablePatterns :
       Contains(ToLower(e.Message), pattern)

\* DefaultErrorHandler.shouldRetryInternalError
shouldRetryInternalError(e) ==
  \E code \in retryableInternalCodes : e.Code = code

\* A policy that retries whatever the category of the error.
DefaultShouldRetry_PermissionRetried(err, n) ==
  err # <<>> /\ n < maxRetries

\* DefaultErrorHandler.ShouldRetry; err is a pointer
DefaultShouldRetry(err, n) ==
  IF err = <<>> THEN FALSE
  ELSE IF n >= maxRetries THEN FALSE
  ELSE IF err[1].Retryable THEN TRUE
  ELSE CASE err[1].Type = "aws" -> shouldRetryAWSError(err[1])
         [] err[1].Type \in {"network", "timeout", "rate_limit"} -> TRUE
         [] err[1].Type \in {"permission", "config", "validation"} -> FALSE
         [] err[1].Type = "internal" -> shouldRetryInternalError(err[1])
         [] OTHER -> FALSE

\* ------------------------------------------------------- circuit breaker
failureThreshold == 5
timeout == 2
recoveryThreshold == 3

openCircuit(b) == [b EXCEPT !.state = "open"]

closeCircuit(b) ==
  [b EXCEPT !.state = "closed", !.failureCount = 0, !.successCount = 0]

\* A half-open period that starts with the successes of the one before.
transitionToHalfOpen_Keeps(b) == [b EXCEPT !.state = "half_open"]

transitionToHalfOpen(b) ==
  [b EXCEPT !.state = "half_open", !.successCount = 0]

\* A failure path that never opens the circuit.
recordFailure_NeverOpens(b) ==
  [b EXCEPT !.lastFailure = <<clock>>, !.failureCount = @ + 1]

\* cb.recordFailure()
recordFailure(b) ==
  LET b1 == [b EXCEPT !.lastFailure = <<clock>>]
      b2 == [b1 EXCEPT !.failureCount = @ + 1]
  IN CASE b.state = "closed" ->
            IF b2.failureCount >= failureThreshold THEN openCircuit(b2)
            ELSE b2
       [] b.state = "half_open" -> openCircuit(b1)
       [] OTHER -> b1

\* A breaker that closes on the first success of a half-open period.
recordSuccessOn_Hasty(b) ==
  CASE b.state \in {"half_open", "open"} -> closeCircuit(b)
    [] OTHER -> [b EXCEPT !.failureCount = 0]

\* cb.RecordSuccess()
recordSuccessOn(b) ==
  CASE b.state = "half_open" ->
         LET b1 == [b EXCEPT !.successCount = @ + 1]
         IN IF b1.successCount >= recoveryThreshold THEN closeCircuit(b1)
            ELSE b1
    [] b.state = "open" -> closeCircuit(b)
    [] OTHER -> [b EXCEPT !.failureCount = 0]

\* time.Since(cb.lastFailure) > cb.timeout
CooldownElapsed(b) ==
  b.lastFailure = <<>> \/ clock - b.lastFailure[1] > timeout

\* A breaker that forgets it is open as soon as it is asked.
isCircuitOpen_Forgetful(b) ==
  IF b.state = "open"
  THEN [open |-> FALSE, cb |-> transitionToHalfOpen(b)]
  ELSE [open |-> FALSE, cb |-> b]

\* cb.isCircuitOpen(): the answer and the fields it leaves behind
isCircuitOpen(b) ==
  IF b.state = "open"
  THEN IF CooldownElapsed(b)
       THEN [open |-> FALSE, cb |-> transitionToHalfOpen(b)]
       ELSE [open |-> TRUE, cb |-> b]
  ELSE [open |-> FALSE, cb |-> b]

\* CircuitBreakerErrorHandler.ShouldRetry
BreakerShouldRetry(b, err, n) ==
  LET r == isCircuitOpen(b)
  IN [answer |-> IF r.open THEN FALSE ELSE DefaultShouldRetry(err, n),
      cb |-> r.cb]

Handlers == {"default", "breaker", "custom"}

\* bc.errorHandler.ShouldRetry(lastErr, attempt): the answers the installed
\* handler can give and the breaker fields each answer leaves behind.  A
\* handler installed with SetErrorHandler that is neither of the two in the
\* repository may answer anything.
ShouldRetry(err, n) ==
  CASE errorHandler = "default" ->
         {[answer |-> DefaultShouldRetry(err, n), cb |-> cb]}
    [] errorHandler = "breaker" -> {BreakerShouldRetry(cb, err, n)}
    [] OTHER -> {[answer |-> a, cb |-> cb] : a \in BOOLEAN}

\* bc.errorHandler.HandleError(bc.name, err): the breaker fields afterwards
HandleError(b) == IF errorHandler = "breaker" THEN recordFailure(b) ELSE b

\* failures recorded in a row, counted up to the threshold
StreakAfterFailure ==
  IF streak < failureThreshold THEN streak + 1 ELSE streak

\* successes recorded in a row, counted up to the threshold
WinsAfterSuccess ==
  IF wins < recoveryThreshold THEN wins + 1 ELSE wins

\* -------------------------------------------------------- CollectWithRetry
\* CollectWithRetry up to its loop: a new result, lastErr nil, attempt 0.
\* cancelled tells whether the context the caller passes is already done.
CollectWithRetry(cancelled) ==
  /\ wpc \in {"idle", "returned"}
  /\ collects < MaxCollects
  /\ collects' = collects + 1
  /\ wpc' = "attempt"
  /\ attempt' = 0
  /\ lastErr' = <<>>
  /\ res' = NewResult
  /\ ctxErr' = cancelled
  /\ invoked' = 0
  /\ got' = <<>>
  /\ cancelSeen' = FALSE
  /\ UNCHANGED <<collectorConfig, errorHandler, successfulCollections,
                 errorCount, metricsCollected, cb, answer, streak, wins, clock>>
  /\ UNCHANGED notRetry

\* result.Metrics = metrics
Succeeded(r, metrics) == [r EXCEPT !.Metrics = metrics]

\* An end of the loop that always keeps the last error.
TerminalError_Always(le, r) == le # <<>>

\* lastErr != nil && len(result.Metrics) == 0
TerminalError(le, r) == le # <<>> /\ Len(r.Metrics) = 0

\* CollectWithRetry after its loop, with lastErr = le, result = r and the
\* breaker fields b: set the terminal error, record it, hand it to the error
\* handler, record the collection and return.
AfterLoop(le, r, b) ==
  /\ IF TerminalError(le, r)
     THEN /\ res' = [r EXCEPT !.Error = le]
          /\ errorCount' = errorCount + 1
          /\ cb' = HandleError(b)
          /\ streak' = IF errorHandler = "breaker" THEN StreakAfterFailure
                       ELSE streak
          /\ wins' = IF errorHandler = "breaker" THEN 0 ELSE wins
     ELSE /\ res' = r
          /\ errorCount' = errorCount
          /\ cb' = b
          /\ streak' = streak
          /\ wins' = wins
  /\ metricsCollected' = metricsCollected + 1
  /\ wpc' = "returned"

\* A loop that runs one attempt more than configured.
MoreAttempts_OneMore(n) == n < collectorConfig.Retries + 1

\* attempt < bc.collectorConfig.Retries: a backoff wait and a further
\* iteration follow
MoreAttempts(n) == n < collectorConfig.Retries

\* One iteration of the loop: the context check, the unit of work, the
\* classification of its error and the retry decision.
Attempt ==
  /\ wpc = "attempt"
  /\ IF ctxErr
     THEN /\ cancelSeen' = TRUE
          /\ AfterLoop(lastErr, [res EXCEPT !.Error = <<ContextCancelled>>],
                       cb)
          /\ UNCHANGED <<attempt, lastErr, invoked, got,
                         successfulCollections, answer>>
     ELSE \E out \in Outcomes :
            /\ invoked' = invoked + 1
            /\ IF out.err = <<>>
               THEN /\ got' = <<out.metrics>>
                    /\ successfulCollections' = successfulCollections + 1
                    /\ AfterLoop(lastErr, Succeeded(res, out.metrics), cb)
                    /\ UNCHANGED <<attempt, lastErr, answer, cancelSeen>>
               ELSE \E d \in ShouldRetry(Classified(out.err), attempt) :
                      /\ lastErr' = Classified(out.err)
                      /\ answer' = d.answer
                      /\ UNCHANGED <<got, successfulCollections, cancelSeen>>
                      /\ IF ~d.answer
                         THEN /\ AfterLoop(Classified(out.err), res, d.cb)
                              /\ UNCHANGED attempt
                         ELSE IF MoreAttempts(attempt)
                         THEN /\ wpc' = "wait"
                              /\ cb' = d.cb
                              /\ UNCHANGED <<attempt, res, errorCount,
                                             metricsCollected, streak, wins>>
                         ELSE /\ attempt' = attempt + 1
                              /\ AfterLoop(Classified(out.err), res, d.cb)
  /\ UNCHANGED <<collectorConfig, errorHandler, ctxErr, collects, clock>>
  /\ UNCHANGED notRetry

\* select: <-time.After(retryDelay); the loop goes to its next iteration.
\* A call blocked in the select is woken by the first of the two events, so
\* the timer ends the wait only while the context is alive.
BackoffElapsed ==
  /\ wpc = "wait"
  /\ ~ctxErr
  /\ attempt' = attempt + 1
  /\ wpc' = "attempt"
  /\ UNCHANGED <<collectorConfig, errorHandler, successfulCollections,
                 errorCount, metricsCollected, lastErr, res, ctxErr, invoked,
                 got, cancelSeen, collects, cb, answer, streak, wins, clock>>
  /\ UNCHANGED notRetry

\* A cancelled wait that returns the error of the last attempt.
CancelledDuringRetry_LastError(r) == [r EXCEPT !.Error = lastErr]

\* result.Error = errors.Wrap(ctx.Err(), ErrorTypeInternal,
\* "CONTEXT_CANCELLED", ...)
CancelledDuringRetry(r) == [r EXCEPT !.Error = <<ContextCancelled>>]

\* select: <-ctx.Done(); the call returns from inside the loop.
BackoffCancelled ==
  /\ wpc = "wait"
  /\ ctxErr
  /\ res' = CancelledDuringRetry(res)
  /\ errorCount' = errorCount + 1
  /\ wpc' = "returned"
  /\ UNCHANGED <<collectorConfig, errorHandler, successfulCollections,
                 metricsCollected, attempt, lastErr, ctxErr, invoked, got,
                 cancelSeen, collects, cb, answer, streak, wins, clock>>
  /\ UNCHANGED notRetry

\* The caller's context is cancelled while the call is in progress.
CancelCtx ==
  /\ wpc \in {"attempt", "wait"}
  /\ ~ctxErr
  /\ ctxErr' = TRUE
  /\ UNCHANGED <<collectorConfig, errorHandler, successfulCollections,
                 errorCount, metricsCollected, wpc, attempt, lastErr, res,
                 invoked, got, cancelSeen, collects, cb, answer, streak, wins,
                 clock>>
  /\ UNCHANGED notRetry

\* --------------------------------------- the breaker called from outside
\* cb.RecordSuccess()
CallRecordSuccess ==
  /\ errorHandler = "breaker"
  /\ wpc \in {"idle", "returned"}
  /\ cb' = recordSuccessOn(cb)
  /\ streak' = 0
  /\ wins' = WinsAfterSuccess
  /\ UNCHANGED <<collectorConfig, errorHandler, successfulCollections,
                 errorCount, metricsCollected, wpc, attempt, lastErr, res,
                 ctxErr, invoked, got, cancelSeen, collects, answer, clock>>
  /\ UNCHANGED notRetry

\* cb.HandleError(name, err)
CallHandleError ==
  /\ errorHandler = "breaker"
  /\ wpc \in {"idle", "returned"}
  /\ cb' = recordFailure(cb)
  /\ streak' = StreakAfterFailure
  /\ wins' = 0
  /\ UNCHANGED <<collectorConfig, errorHandler, successfulCollections,
                 errorCount, metricsCollected, wpc, attempt, lastErr, res,
                 ctxErr, invoked, got, cancelSeen, collects, answer, clock>>
  /\ UNCHANGED notRetry

\* cb.ShouldRetry(err, n)
CallShouldRetry(err, n) ==
  /\ errorHandler = "breaker"
  /\ wpc \in {"idle", "returned"}
  /\ cb' = BreakerShouldRetry(cb, err, n).cb
  /\ answer' = BreakerShouldRetry(cb, err, n).answer
  /\ UNCHANGED <<collectorConfig, errorHandler, successfulCollections,
                 errorCount, metricsCollected, wpc, attempt, lastErr, res,
                 ctxErr, invoked, got, cancelSeen, collects, streak, wins, clock>>
  /\ UNCHANGED notRetry

\* Time passes; only the breaker reads the clock.
Tick ==
  /\ errorHandler = "breaker"
  /\ clock < MaxClock
  /\ clock' = clock + 1
  /\ UNCHANGED <<collectorConfig, errorHandler, successfulCollections,
                 errorCount, metricsCollected, wpc, attempt, lastErr, res,
                 ctxErr, invoked, got, cancelSeen, collects, cb, answer,
                 streak, wins>>
  /\ UNCHANGED notRetry

\* The errors and attempt numbers a caller passes to ShouldRetry.
ConsultErrors == {<<NetworkError>>, <<PermissionError>>}

ConsultAttempts == {0, maxRetries}

RetryInit ==
  /\ NewMetricScheduler(ValidConfig)
  /\ \E handler \in Handlers, retries \in 0..MaxRetries :
       NewBaseCollector(handler, retries)
  /\ NewManager
  /\ ask = NoAsk
  /\ NoOthers

RetryNext ==
  \/ \E cancelled \in BOOLEAN : CollectWithRetry(cancelled)
  \/ Attempt
  \/ BackoffElapsed
  \/ BackoffCancelled
  \/ CancelCtx
  \/ CallRecordSuccess
  \/ CallHandleError
  \/ \E err \in ConsultErrors, n \in ConsultAttempts : CallShouldRetry(err, n)
  \/ Tick

RetrySpec == RetryInit /\ [][RetryNext]_vars

\* ------------------------------------------- the default policy on its own
ErrorTypes ==
  {"aws", "config", "network", "validation", "internal", "timeout",
   "permission", "rate_limit"}

\* codes and messages of the errors handed to the policy
PolicyCodes ==
  {<<>>, <<"AccessDenied">>, <<"Throttling">>,
   <<"EC2", "Throttling", "Exception">>, <<"throttling">>, <<"TIMEOUT">>,
   <<"TIMEOUT", "_EXCEEDED">>, <<"COLLECTION_ERROR">>}

PolicyMessages ==
  {<<>>, <<"AccessDenied">>, <<"read: ", "Connection Reset", " by peer">>,
   <<"rate exceeded: ", "Throttling">>, <<"throttling">>}

\* how the caller marked the error with errors.WithRetryable, if at all
Marks == {"none", "retryable", "non-retryable"}

\* the error the caller passes: errors.New(...), marked or not
Marked(a) ==
  LET err == <<New(a.Type, a.Code, a.Message)>>
  IN CASE a.mark = "retryable" -> WithRetryable(err, TRUE)
       [] a.mark = "non-retryable" -> WithRetryable(err, FALSE)
       [] OTHER -> err

\* DefaultErrorHandler.ShouldRetry(err, attempt) is called and returns.
AskShouldRetry ==
  /\ ask # NoAsk
  /\ ask.out = <<>>
  /\ ask' = [ask EXCEPT !.out = <<DefaultShouldRetry(Marked(ask), ask.n)>>]
  /\ UNCHANGED notAsk

PolicyInit ==
  /\ NewMetricScheduler(ValidConfig)
  /\ NewBaseCollector("default", 0)
  /\ NewManager
  /\ NoOthers
  /\ ask \in [Type : ErrorTypes, Code : PolicyCodes,
               Message : PolicyMessages, mark : Marks, n : 0..MaxAttemptNo,
               out : {<<>>}]

PolicyNext == AskShouldRetry

PolicySpec == PolicyInit /\ [][PolicyNext]_vars

\* ---------------------------------------------------------- health manager
StatusHealthy == "healthy"
StatusDegraded == "degraded"
StatusUnhealthy == "unhealthy"
StatusUnknown == "unknown"

Statuses == {StatusHealthy, StatusDegraded, StatusUnhealthy, StatusUnknown}

\* the names of the checkers a caller registers
CheckNames == {"a", "b"}

\* the statuses the registered checkers report
CheckOutcomes == {StatusHealthy, StatusUnhealthy}

\* the names of the results GetHealth is given to aggregate
AggNames == {"a", "b", "c"}

\* m.results[name] = result
Put(f, name, st) ==
  [x \in DOMAIN f \cup {name} |-> IF x = name THEN st ELSE f[x]]

\* number of the checks in the sequence `order` whose status is st
RECURSIVE CountStatus(_, _, _)
CountStatus(checks, order, st) ==
  IF order = <<>> THEN 0
  ELSE (IF checks[Head(order)] = st THEN 1 ELSE 0)
       + CountStatus(checks, Tail(order), st)

\* the orders in which a range over the map `checks` can visit its keys
Orders(checks) ==
  {o \in [1..Cardinality(DOMAIN checks) -> DOMAIN checks] :
     \A i, j \in DOMAIN o : i # j => o[i] # o[j]}

\* An aggregation that reports the status of the check it visits first.
aggregateStatus_FirstWins(checks, order) ==
  IF Len(order) = 0 THEN StatusUnknown ELSE checks[order[1]]

\* Manager.aggregateStatus, ranging over the map in the given order
aggregateStatus(checks, order) ==
  LET totalChecks == Len(order)
      healthyCount == CountStatus(checks, order, StatusHealthy)
      unhealthyCount == CountStatus(checks, order, StatusUnhealthy)
      degradedCount == CountStatus(checks, order, StatusDegraded)
      unknownCount == CountStatus(checks, order, StatusUnknown)
  IN IF totalChecks = 0 THEN StatusUnknown
     ELSE IF unhealthyCount > 0 THEN StatusUnhealthy
     ELSE IF degradedCount > 0 THEN StatusDegraded
     ELSE IF unknownCount = totalChecks THEN StatusUnknown
     ELSE IF healthyCount = totalChecks THEN StatusHealthy
     ELSE IF healthyCount > 0 THEN StatusDegraded
     ELSE StatusUnknown

\* A read lock that is granted while a RunChecks call holds m.mu.
RLock_Granted == TRUE

\* m.mu.RLock() / m.mu.Lock() can be taken
RLock == mu = "free"

\* Manager.RegisterChecker
RegisterChecker(name) ==
  /\ RLock
  /\ checkers' = checkers \cup {name}
  /\ UNCHANGED <<checkResults, running, mCtxDone, mu, hloop, tickReady, runs,
                 health, loopRuns, ticksTaken>>
  /\ UNCHANGED notHealth

\* Manager.UnregisterChecker
UnregisterChecker(name) ==
  /\ RLock
  /\ IF name \in checkers
     THEN /\ checkers' = checkers \ {name}
          /\ checkResults' = Remove(checkResults, name)
     ELSE UNCHANGED <<checkers, checkResults>>
  /\ UNCHANGED <<running, mCtxDone, mu, hloop, tickReady, runs, health,
                 loopRuns, ticksTaken>>
  /\ UNCHANGED notHealth

\* RunChecks up to the launch of its goroutines: the checkers are copied
\* under the lock; with no checker the call returns at once.  Only the loop
\* of Start calls RunChecks in the program, so the calls do not overlap.
BeginRun(o) ==
  /\ RLock
  /\ \A p \in Owners : runs[p].pc = "idle"
  /\ runs' = IF checkers = {} THEN runs
             ELSE [runs EXCEPT ![o] = [pc |-> "checks", pending |-> checkers,
                                       ch |-> {}, stored |-> {}]]

\* The context a RunChecks call was given is done: the loop passes m.ctx, a
\* client passes a context that stays alive.
RunCtxDone(o) == o = "loop" /\ mCtxDone

\* One goroutine of RunChecks: c.Check returns a result, and the select sends
\* it to resultsChan or, when the context is done, may drop it.
CheckReturns(o, name, st) ==
  /\ runs[o].pc \in {"checks", "collect"}
  /\ name \in runs[o].pending
  /\ \/ runs' = [runs EXCEPT ![o].pending = @ \ {name},
                             ![o].ch = @ \cup {[Name |-> name, Status |-> st]}]
     \/ /\ RunCtxDone(o)
        /\ runs' = [runs EXCEPT ![o].pending = @ \ {name}]
  /\ UNCHANGED <<checkers, checkResults, running, mCtxDone, mu, hloop,
                 tickReady, health, loopRuns, ticksTaken>>
  /\ UNCHANGED notHealth

\* RunChecks: m.mu.Lock() before the range over resultsChan
LockResults(o) ==
  /\ runs[o].pc = "checks"
  /\ mu = "free"
  /\ mu' = o
  /\ runs' = [runs EXCEPT ![o].pc = "collect"]
  /\ UNCHANGED <<checkers, checkResults, running, mCtxDone, hloop, tickReady,
                 health, loopRuns, ticksTaken>>
  /\ UNCHANGED notHealth

\* RunChecks: one iteration of the range over resultsChan
StoreResult(o) ==
  /\ runs[o].pc = "collect"
  /\ \E result \in runs[o].ch :
       /\ checkResults' = Put(checkResults, result.Name, result.Status)
       /\ runs' = [runs EXCEPT ![o].ch = @ \ {result},
                               ![o].stored = @ \cup {result.Name}]
  /\ UNCHANGED <<checkers, running, mCtxDone, mu, hloop, tickReady, health,
                 loopRuns, ticksTaken>>
  /\ UNCHANGED notHealth

\* RunChecks: every goroutine is done, resultsChan is closed and drained;
\* m.mu.Unlock() and return.  The loop goes on to its select.
EndRun(o) ==
  /\ runs[o].pc = "collect"
  /\ runs[o].pending = {}
  /\ runs[o].ch = {}
  /\ mu' = "free"
  /\ runs' = [runs EXCEPT ![o] = NoRun]
  /\ hloop' = IF o = "loop" THEN "select" ELSE hloop
  /\ UNCHANGED <<checkers, checkResults, running, mCtxDone, tickReady, health,
                 loopRuns, ticksTaken>>
  /\ UNCHANGED notHealth

\* Manager.RunChecks called by a client of the manager, which does so only
\* on a manager it has not started.
RunChecks ==
  /\ hloop = "none"
  /\ BeginRun("client")
  /\ UNCHANGED <<checkers, checkResults, running, mCtxDone, mu, hloop,
                 tickReady, health, loopRuns, ticksTaken>>
  /\ UNCHANGED notHealth

\* Manager.GetHealth: the results are copied under the read lock and
\* aggregated; the range over the copy visits its keys in some order.
GetHealth ==
  /\ RLock
  /\ \E order \in Orders(checkResults) :
       health' = <<[Status |-> aggregateStatus(checkResults, order),
                    Checks |-> checkResults]>>
  /\ UNCHANGED <<checkers, checkResults, running, mCtxDone, mu, hloop,
                 tickReady, runs, loopRuns, ticksTaken>>
  /\ UNCHANGED notHealth

\* Where the goroutine of a Start that skips the first run begins.
LoopEntry_NoFirstRun == "select"

\* The goroutine launched by Start calls RunChecks before its loop.
LoopEntry == "first"

\* Manager.Start(interval)
ManagerStart ==
  /\ RLock
  /\ IF running
     THEN UNCHANGED <<running, hloop>>
     ELSE /\ running' = TRUE
          /\ hloop' = LoopEntry
  /\ UNCHANGED <<checkers, checkResults, mCtxDone, mu, tickReady, runs,
                 health, loopRuns, ticksTaken>>
  /\ UNCHANGED notHealth

\* Manager.Stop()
ManagerStop ==
  /\ RLock
  /\ IF ~running
     THEN UNCHANGED <<running, mCtxDone>>
     ELSE /\ running' = FALSE
          /\ mCtxDone' = TRUE
  /\ UNCHANGED <<checkers, checkResults, mu, hloop, tickReady, runs, health,
                 loopRuns, ticksTaken>>
  /\ UNCHANGED notHealth

\* Start is called on a manager that was not stopped before.
ManagerFirstStart ==
  /\ ~mCtxDone
  /\ ManagerStart

\* The ticker of the loop fires; ticker.C holds one tick at most.
TickerFires ==
  /\ hloop \in {"first", "run", "select"}
  /\ ~tickReady
  /\ ticksTaken < MaxTicks
  /\ tickReady' = TRUE
  /\ UNCHANGED <<checkers, checkResults, running, mCtxDone, mu, hloop, runs,
                 health, loopRuns, ticksTaken>>
  /\ UNCHANGED notHealth

\* where the loop is after it called RunChecks
InRunChecks == IF checkers = {} THEN "select" ELSE "run"

\* The loop goroutine: m.RunChecks(m.ctx) before the for loop
HealthLoopFirst ==
  /\ hloop = "first"
  /\ BeginRun("loop")
  /\ hloop' = InRunChecks
  /\ loopRuns' = loopRuns + 1
  /\ UNCHANGED <<checkers, checkResults, running, mCtxDone, mu, tickReady,
                 health, ticksTaken>>
  /\ UNCHANGED notHealth

\* The loop goroutine: case <-ticker.C: m.RunChecks(m.ctx)
HealthLoopTick ==
  /\ hloop = "select"
  /\ tickReady
  /\ tickReady' = FALSE
  /\ ticksTaken' = ticksTaken + 1
  /\ BeginRun("loop")
  /\ hloop' = InRunChecks
  /\ loopRuns' = loopRuns + 1
  /\ UNCHANGED <<checkers, checkResults, running, mCtxDone, mu, health>>
  /\ UNCHANGED notHealth

\* The loop goroutine: case <-m.ctx.Done(): return
HealthLoopDone ==
  /\ hloop = "select"
  /\ mCtxDone
  /\ hloop' = "exited"
  /\ UNCHANGED <<checkers, checkResults, running, mCtxDone, mu, tickReady,
                 runs, health, loopRuns, ticksTaken>>
  /\ UNCHANGED notHealth

HealthInit ==
  /\ NewMetricScheduler(ValidConfig)
  /\ NewBaseCollector("default", 0)
  /\ NewManager
  /\ ask = NoAsk
  /\ NoOthers

HealthNext ==
  \/ \E name \in CheckNames : RegisterChecker(name)
  \/ \E name \in CheckNames : UnregisterChecker(name)
  \/ RunChecks
  \/ \E o \in Owners, name \in CheckNames, st \in CheckOutcomes :
       CheckReturns(o, name, st)
  \/ \E o \in Owners : LockResults(o)
  \/ \E o \in Owners : StoreResult(o)
  \/ \E o \in Owners : EndRun(o)
  \/ GetHealth
  \/ ManagerFirstStart
  \/ ManagerStop
  \/ TickerFires
  \/ HealthLoopFirst
  \/ HealthLoopTick
  \/ HealthLoopDone

HealthSpec == HealthInit /\ [][HealthNext]_vars

\* GetHealth on a manager that holds any results of up to three checks
AggInit ==
  /\ NewMetricScheduler(ValidConfig)
  /\ NewBaseCollector("default", 0)
  /\ ask = NoAsk
  /\ NoOthers
  /\ checkResults \in UNION {[S -> Statuses] : S \in SUBSET AggNames}
  /\ checkers = DOMAIN checkResults
  /\ running = FALSE
  /\ mCtxDone = FALSE
  /\ mu = "free"
  /\ hloop = "none"
  /\ tickReady = FALSE
  /\ runs = [o \in Owners |-> NoRun]
  /\ health = <<>>
  /\ loopRuns = 0
  /\ ticksTaken = 0

AggNext == GetHealth

AggSpec == AggInit /\ [][AggNext]_vars

\* The Go scheduler runs every goroutine that can run, a checker returns,
\* and a goroutine waiting for m.mu gets it.
HealthLiveSpec ==
  /\ HealthSpec
  /\ WF_vars(HealthLoopFirst)
  /\ WF_vars(HealthLoopTick \/ HealthLoopDone)
  /\ WF_vars(\E o \in Owners, name \in CheckNames, st \in CheckOutcomes :
               CheckReturns(o, name, st))
  /\ WF_vars(\E o \in Owners : LockResults(o))
  /\ WF_vars(\E o \in Owners : StoreResult(o))
  /\ WF_vars(\E o \in Owners : EndRun(o))

\* ------------------------------------------------------------------ claims
\* C1: in every reachable state the number of job executions in progress
\* (executeJob goroutines that hold a semaphore slot) is at most
\* MaxConcurrentJobs.
C1_BoundedConcurrency ==
  /\ InFlight <= config.MaxConcurrentJobs
  /\ jobSemaphore = InFlight

\* The worker budget is used up: two executions of different jobs are in
\* progress.
C1_Witness ==
  /\ InFlight = config.MaxConcurrentJobs
  /\ InFlight = 2
  /\ Cardinality({e.id : e \in Execs}) = 2

\* C2: at most one execution per job identifier is in flight at any time.
C2_OneExecutionPerJob ==
  \A e \in Execs : execs[e] = 1 /\ \A x \in Execs : x.id = e.id => x = e

\* C3 as stated: Start takes a stopped scheduler with a valid configuration
\* to running, and when Stop returns after the loop exited the status is
\* stopped, no job is active and nothing has panicked.
C3_Original ==
  [][/\ (Start /\ status = "stopped" /\ validateConfig = "nil")
          => status' = "running"
     /\ StopFinal
          => (status' = "stopped" /\ activeJobs' = {} /\ ~panicked')]_vars

\* C3 amended: Start takes a stopped scheduler with a valid configuration to
\* running; when Stop returns after the loop exited the status is stopped,
\* nothing has panicked, and every job still recorded as active has had its
\* context cancelled (Stop does not wait for it to leave the active set).
C3_StartStop ==
  [][/\ (Start /\ status = "stopped" /\ validateConfig = "nil")
          => status' = "running"
     /\ StopFinal
          => /\ status' = "stopped"
             /\ ~panicked'
             /\ \A e \in Execs' : e.owner => e.cancelled]_vars

\* Stop has returned while an execution was still recorded as active, and
\* has cancelled it.
C3_Witness ==
  /\ status = "stopped"
  /\ stopCh /\ doneCh /\ pcStop = "idle"
  /\ ~panicked
  /\ \E e \in Execs : e.owner /\ e.cancelled

\* C4: once Stop has returned, every job execution still running its unit of
\* work has a cancelled job context.
C4_StopCancelsAll ==
  (status = "stopped" /\ stopCh)
    => \A e \in Execs : e.pc = "run" => CtxDone(e)

\* C5 as stated: the next-run time of a job identifier that stays scheduled
\* never moves backward in any step, schedule included.
C5_Original ==
  [][\A id \in DOMAIN jobs \cap DOMAIN jobs' :
       jobs'[id].NextRun >= jobs[id].NextRun]_vars

\* C5 amended: in every step other than a schedule call, the next-run time
\* of a job identifier that stays scheduled does not move backward, and a
\* step that changes the job sets next-run to the completion time plus the
\* job's interval.
C5_NextRunMonotone ==
  [][\/ \E name \in CollectorNames, regions \in RegionLists,
           interval \in Intervals :
           ScheduleCollector(name, regions, interval)
     \/ \A id \in DOMAIN jobs \cap DOMAIN jobs' :
           /\ jobs'[id].NextRun >= jobs[id].NextRun
           /\ jobs'[id] # jobs[id] =>
                 /\ jobs'[id].LastRun = <<now>>
                 /\ jobs'[id].NextRun = now + jobs[id].Interval]_vars

\* An execution has completed and advanced the next-run time of its job
\* beyond the time the schedule call gave it.
C5_Witness ==
  \E id \in DOMAIN jobs :
    /\ jobs[id].LastRun # <<>>
    /\ jobs[id].NextRun = jobs[id].LastRun[1] + jobs[id].Interval
    /\ jobs[id].NextRun > Grace

\* C6: a schedule call that names a collector the registry does not know
\* returns the not-found error and leaves the job table unchanged; no job of
\* an unknown collector is ever in the table.
C6_UnknownCollector ==
  [][/\ \A name \in CollectorNames, regions \in RegionLists,
           interval \in Intervals :
           (ScheduleCollector(name, regions, interval) /\ name \notin Registry)
             => (jobs' = jobs /\ scheduleErr' = "COLLECTOR_NOT_FOUND")
     /\ (scheduleErr' = "COLLECTOR_NOT_FOUND" /\ scheduleErr = "nil")
           => jobs' = jobs
     /\ \A id \in DOMAIN jobs' : id[1] \in Registry]_vars

\* A schedule call has failed on a scheduler that holds jobs.
C6_Witness ==
  /\ scheduleErr = "COLLECTOR_NOT_FOUND"
  /\ jobs # <<>>

\* C7: an unschedule call on a scheduled job removes it from the job table
\* in the same step and leaves every execution of that job that is running
\* its unit of work with a cancelled context; only a schedule call puts a
\* job identifier into the table.
C7_Original ==
  [][/\ \A name \in CollectorNames, region \in Regions :
           (UnscheduleCollector(name, region)
              /\ <<name, region>> \in DOMAIN jobs)
             => /\ <<name, region>> \notin DOMAIN jobs'
                /\ \A e \in Execs' :
                     (e.id = <<name, region>> /\ e.pc = "run") => e.cancelled
     /\ (DOMAIN jobs' \ DOMAIN jobs # {})
           => \E name \in CollectorNames, regions \in RegionLists,
                 interval \in Intervals :
                 ScheduleCollector(name, regions, interval)]_vars

\* C8 as stated: Health returns an error exactly when the scheduler is
\* stopped, in the error state, or its last tick is older than twice the
\* tick interval.
C8_Original ==
  (Health # "nil")
    <=> \/ status \in {"stopped", "error"}
        \/ /\ lastTickTime # <<>>
           /\ now - lastTickTime[1] > 2 * config.TickInterval

\* C8 amended: Health returns an error exactly when the scheduler is not
\* running (stopped, error, starting or stopping), or is running with a last
\* tick older than twice the tick interval.
C8_Health ==
  (Health # "nil")
    <=> \/ status # "running"
        \/ /\ lastTickTime # <<>>
           /\ now - lastTickTime[1] > 2 * config.TickInterval

\* A running scheduler whose loop has not ticked for more than two tick
\* intervals reports an error.
C8_Witness ==
  /\ status = "running"
  /\ lastTickTime # <<>>
  /\ now - lastTickTime[1] > 2 * config.TickInterval
  /\ Health = "SCHEDULER_NOT_TICKING"

\* C9: a step in which an execution finishes increments exactly one of the
\* two counters and calls exactly one processor, the failed counter and the
\* error processor exactly when the result carries an error; no other step
\* changes a counter or calls a processor.
C9_Counters ==
  [][/\ \A e \in Execs :
           ExecFinish(e) =>
             /\ \/ /\ failedJobs' = failedJobs + 1
                   /\ errors' = errors + 1
                   /\ UNCHANGED <<completedJobs, results>>
                \/ /\ completedJobs' = completedJobs + 1
                   /\ results' = results + 1
                   /\ UNCHANGED <<failedJobs, errors>>
             /\ e.attached =>
                   /\ jobs'[e.id].LastResult \in {"ok", "err"}
                   /\ (jobs'[e.id].LastResult = "err")
                        <=> (failedJobs' = failedJobs + 1)
     /\ (~ \E e \in Execs : ExecFinish(e))
           => UNCHANGED <<completedJobs, failedJobs, results, errors>>
     /\ results' = completedJobs' /\ errors' = failedJobs']_vars

\* Executions of both kinds have finished.
C9_Witness ==
  /\ completedJobs >= 1 /\ results = completedJobs
  /\ failedJobs >= 1 /\ errors = failedJobs

\* C10: every job returned by GetScheduledJobs has its last-run set exactly
\* when its last-result is set, and then its next-run is the last-run plus
\* the interval.
C10_AtomicUpdate ==
  \A job \in GetScheduledJobs :
    /\ (job.LastRun # <<>>) <=> (job.LastResult # "none")
    /\ job.LastRun # <<>> => job.NextRun = job.LastRun[1] + job.Interval

\* A reader sees a job that has run, while the scheduler is running.
C10_Witness ==
  /\ status = "running"
  /\ \E job \in GetScheduledJobs :
       job.LastRun # <<>> /\ job.LastResult \in {"ok", "err"}

\* C11: a panic raised inside a job's unit of work is recovered inside
\* executeJob: no executeJob goroutine unwinds with a panic past its unit of
\* work and no panic ends the process (and with it the tick loop).
C11_PanicRecovered ==
  /\ \A e \in Execs : ~e.panicking
  /\ ~panicked

\* The executions whose unit of work has returned and that still hold their
\* semaphore slot.
Returned == {e \in Execs : e.pc \in {"cleanup", "release"}}

C13_BoundedAttempts == invoked <= collectorConfig.Retries + 1

\* A call with at least one retry configured has used every attempt.
C13_Witness ==
  /\ wpc = "returned"
  /\ collectorConfig.Retries >= 1
  /\ invoked = collectorConfig.Retries + 1

\* C14: a call that found its context cancelled at the start of an attempt
\* returns a result whose error has the code CONTEXT_CANCELLED.
C14_CancelClassified ==
  (wpc = "returned" /\ cancelSeen) => res.Error = <<ContextCancelled>>

\* C15: when an attempt succeeds after earlier attempts of the same call
\* failed, the call returns at once with no error and with exactly the
\* metrics of that attempt (empty or not), the success counter moves and the
\* error counter does not.
C15_SuccessAfterRetry ==
  [][(wpc = "attempt" /\ lastErr # <<>> /\ got' # <<>>)
       => /\ wpc' = "returned"
          /\ res'.Error = <<>>
          /\ res'.Metrics = got'[1]
          /\ successfulCollections' = successfulCollections + 1
          /\ errorCount' = errorCount]_vars

\* An attempt of the call in progress fails: the unit of work was invoked
\* and did not succeed.
FailedAttempt == Attempt /\ invoked' = invoked + 1 /\ got' = <<>>

\* C16: under the repository's retry policies an attempt that fails with a
\* permission error ends the call: a unit of work that always fails so is
\* invoked exactly once, and the result carries the permission error and no
\* metrics.
C16_PermissionNotRetried ==
  [][(FailedAttempt /\ lastErr' = <<PermissionError>>
      /\ errorHandler # "custom")
       => /\ wpc' = "returned"
          /\ attempt = 0 => invoked' = 1
          /\ res'.Error = <<PermissionError>>
          /\ res'.Error[1].Type = "permission"
          /\ res'.Metrics = <<>>]_vars

\* With two retries configured, the call has returned the permission error
\* of its first and only attempt.
C16_Witness ==
  /\ wpc = "returned"
  /\ errorHandler = "default"
  /\ collectorConfig.Retries = 2
  /\ lastErr = <<PermissionError>>
  /\ res.Error = <<PermissionError>>
  /\ invoked = 1

\* C17: a result whose terminal error is set has an empty metric sequence.
C17_ErrorMeansNoMetrics == res.Error # <<>> => Len(res.Metrics) = 0

\* A call has returned an error after using up its retries.
C17_Witness ==
  /\ wpc = "returned"
  /\ res.Error # <<>>
  /\ collectorConfig.Retries >= 1
  /\ invoked = collectorConfig.Retries + 1

\* C18: while the breaker is closed its failure count is the number of
\* failures recorded in a row (a recorded success resets it) and is below
\* the threshold; a closed breaker opens in exactly the step that records
\* the threshold-th failure in a row, and never goes to half_open.
C18_OpensAtThreshold ==
  /\ [](cb.state = "closed"
          => cb.failureCount = streak /\ streak < failureThreshold)
  /\ [][cb.state = "closed"
          => /\ cb'.state = "open" <=> streak' = failureThreshold
             /\ cb'.state # "half_open"]_vars

\* The threshold-th failure in a row has opened the breaker.
C18_Witness ==
  /\ cb.state = "open"
  /\ streak = failureThreshold
  /\ cb.failureCount = failureThreshold

\* The breaker is consulted: by a caller, or by the wrapper after a failed
\* attempt.
Consulted ==
  \/ \E err \in ConsultErrors, n \in ConsultAttempts : CallShouldRetry(err, n)
  \/ FailedAttempt /\ errorHandler = "breaker"

\* C19: while the breaker is open and its cooldown has not elapsed, every
\* consultation is answered with a denial and leaves the breaker open; when
\* the wrapper consulted, its call returns without another attempt.
C19_OpenDenies ==
  [][(cb.state = "open" /\ ~CooldownElapsed(cb) /\ Consulted)
       => /\ answer' = FALSE
          /\ cb'.state = "open"
          /\ wpc = "attempt" => wpc' = "returned" /\ invoked' = invoked + 1
    ]_vars

\* With retries left and a retryable error, the wrapper's call has returned
\* after one attempt because the open breaker denied the retry.
C19_Witness ==
  /\ errorHandler = "breaker"
  /\ wpc = "returned"
  /\ cb.state = "open"
  /\ ~CooldownElapsed(cb)
  /\ collectorConfig.Retries >= 1
  /\ lastErr = <<NetworkError>>
  /\ res.Error = <<NetworkError>>
  /\ invoked = 1
  /\ answer = FALSE

\* C20: the breaker leaves open only in a consultation made after the
\* cooldown has elapsed since the last recorded failure, and then for
\* half_open.
C20_OpenLeavesLazily ==
  [][(cb.state = "open" /\ cb'.state # "open")
       => /\ Consulted
          /\ CooldownElapsed(cb)
          /\ cb'.state = "half_open"]_vars

\* C21: while the breaker is half-open its success count is the number of
\* successes recorded in a row, below the recovery threshold of three; a step
\* closes the breaker exactly when it records the third success in a row, and
\* the closed breaker has both counts at zero.
C21_HalfOpenCloses ==
  [][cb.state = "half_open"
       => /\ cb.successCount = wins
          /\ wins < recoveryThreshold
          /\ cb'.state = "closed" <=> wins' = recoveryThreshold
          /\ cb'.state = "closed"
               => cb'.failureCount = 0 /\ cb'.successCount = 0]_vars

C21_Witness ==
  /\ cb.state = "half_open"
  /\ cb.successCount = recoveryThreshold - 1
  /\ wins = recoveryThreshold - 1

\* a step in which a failure is recorded with the breaker
RecordedFailure ==
  /\ errorHandler = "breaker"
  /\ CallHandleError \/ (Attempt /\ errorCount' = errorCount + 1)

\* C22: a failure recorded while the breaker is half-open opens it in that
\* step, and every half-open period starts with a success count of zero,
\* whatever was counted in the period before.
C22_HalfOpenReopens ==
  [][/\ (cb.state = "half_open" /\ RecordedFailure) => cb'.state = "open"
     /\ (cb.state # "half_open" /\ cb'.state = "half_open")
          => cb'.successCount = 0]_vars

C22_Witness ==
  /\ cb.state = "open"
  /\ cb.successCount > 0
  /\ cb.lastFailure = <<clock>>

\* C23: the status of every GetHealth snapshot is the reduction of the
\* statuses in the check results of that snapshot: unknown for no results,
\* unhealthy if any is unhealthy, else degraded if any is degraded, else
\* unknown if all are unknown, else healthy if all are healthy, else degraded
\* for unknown mixed with healthy; the order in which the results are visited
\* makes no difference.
C23_StatusIsReduction ==
  health # <<>> =>
    LET checks == health[1].Checks
        S == {checks[n] : n \in DOMAIN checks}
        reduced ==
          IF DOMAIN checks = {} THEN StatusUnknown
          ELSE IF StatusUnhealthy \in S THEN StatusUnhealthy
          ELSE IF StatusDegraded \in S THEN StatusDegraded
          ELSE IF S = {StatusUnknown} THEN StatusUnknown
          ELSE IF S = {StatusHealthy} THEN StatusHealthy
          ELSE IF StatusHealthy \in S /\ StatusUnknown \in S
               THEN StatusDegraded
          ELSE StatusUnknown
    IN health[1].Status = reduced

C23_Witness ==
  /\ health # <<>>
  /\ DOMAIN health[1].Checks = AggNames
  /\ {health[1].Checks[n] : n \in AggNames} = {StatusHealthy, StatusUnknown}
  /\ health[1].Status = StatusDegraded

\* no RunChecks call is in progress
NoRunInProgress == \A o \in Owners : runs[o].pc = "idle"

\* C24: a GetHealth snapshot taken while no RunChecks call is in progress
\* holds results of registered checkers only: the result of an unregistered
\* checker is gone once the runs that overlapped its removal have finished.
C24_UnregisterTakesEffect ==
  [][(GetHealth /\ NoRunInProgress)
       => DOMAIN health'[1].Checks \subseteq checkers]_vars

\* a RunChecks call has stored some of the results it collects, not all
HalfApplied ==
  \E o \in Owners :
    /\ runs[o].pc = "collect"
    /\ runs[o].stored # {}
    /\ runs[o].pending # {} \/ runs[o].ch # {}

\* C25: GetHealth takes its copy of the results in no state in which a run
\* has stored some of its collected results and not yet all of them.
C25_NoHalfAppliedRun ==
  [][GetHealth => ~HalfApplied]_vars

C25_Witness ==
  /\ HalfApplied
  /\ health # <<>>
  /\ DOMAIN health[1].Checks = CheckNames
  /\ \E n \in CheckNames : health[1].Checks[n] # checkResults[n]

\* C26: the loop of Start has called RunChecks once before its first tick
\* and once more for every tick it received; a loop is launched only on a
\* manager that has none, Stop on a manager that is not running changes
\* nothing, the loop ends only after Stop, and after Stop it ends.
C26_StartStop ==
  /\ [](hloop \in {"none", "first"} => loopRuns = 0)
  /\ [](hloop \in {"run", "select", "exited"} => loopRuns = 1 + ticksTaken)
  /\ [](hloop = "exited" => mCtxDone)
  /\ [][(hloop' # hloop /\ hloop' = "first")
          => (hloop = "none" /\ ~running)]_vars
  /\ [][(running /\ ManagerStart) => UNCHANGED healthVars]_vars
  /\ [][(~running /\ ManagerStop) => UNCHANGED healthVars]_vars
  /\ (hloop = "first" ~> loopRuns >= 1)
  /\ (mCtxDone ~> hloop = "exited")

C26_Witness ==
  /\ hloop = "exited"
  /\ ticksTaken = MaxTicks
  /\ loopRuns = MaxTicks + 1
  /\ ~running

\* C27: a step of a tick that finds no semaphore slot for a job of its
\* snapshot drops the job from the snapshot and changes nothing else: the job
\* table, both counters, the executions and the semaphore are as before, the
\* job is in no snapshot any more, and if it was due it still is.
C27_SkipHasNoEffect ==
  [][\A i \in DOMAIN loops : \A j \in loops[i].todo :
       (/\ LoopDispatch(i)
        /\ ~TryAcquire
        /\ loops'[i].todo = loops[i].todo \ {j})
       => /\ jobs' = jobs
          /\ completedJobs' = completedJobs
          /\ failedJobs' = failedJobs
          /\ execs' = execs
          /\ jobSemaphore' = jobSemaphore
          /\ \A k \in DOMAIN loops : j \notin loops'[k].todo
          /\ (j.attached /\ j.id \in DOMAIN jobs /\ Due(j.id))
               => (j.id \in DOMAIN jobs' /\ Due(j.id)')]_vars

\* The tick of this instant is over, the semaphore is full, and a job that
\* is due has no execution.
C27_Witness ==
  /\ lastTickTime = <<now>>
  /\ jobSemaphore = config.MaxConcurrentJobs
  /\ \A i \in DOMAIN loops : loops[i].pc = "select" /\ loops[i].todo = {}
  /\ DOMAIN loops # {}
  /\ \E id \in DOMAIN jobs :
       /\ Due(id)
       /\ \A e \in Execs : e.id # id

\* C28: for an error that carries no retryable mark the default policy
\* answers yes exactly when the attempt number is below the cap and the
\* category allows it: connectivity, timeout and rate-limit errors always,
\* a dependency-call error when its code or message holds a transient
\* signature, an internal error when its code is on the allow-list, and no
\* other error.
C28_CategoryDefault ==
  (ask # NoAsk /\ ask.out # <<>> /\ ask.mark = "none") =>
    LET transient ==
          \/ \E sig \in retryableAWSCodes :
               Contains(ask.Code, sig) \/ Contains(ask.Message, sig)
          \/ \E sig \in retryablePatterns :
               Contains(ToLower(ask.Message), sig)
        byCategory ==
          \/ ask.Type \in {"network", "timeout", "rate_limit"}
          \/ ask.Type = "aws" /\ transient
          \/ ask.Type = "internal" /\ ask.Code \in retryableInternalCodes
    IN ask.out[1] = (ask.n < maxRetries /\ byCategory)

\* a dependency-call error retried for what its message says in other case
C28_Witness ==
  /\ ask # NoAsk
  /\ ask.out = <<TRUE>>
  /\ ask.mark = "none"
  /\ ask.Type = "aws"
  /\ ask.Code = <<"AccessDenied">>
  /\ ask.Message = <<"read: ", "Connection Reset", " by peer">>

\* C29: below the attempt cap, an error marked retryable is retried and an
\* error marked non-retryable is not, whatever the category.
C29_FlagOverrides ==
  (ask # NoAsk /\ ask.out # <<>> /\ ask.n < maxRetries) =>
    /\ ask.mark = "retryable" => ask.out[1]
    /\ ask.mark = "non-retryable" => ~ask.out[1]

C31_SuccessRecorded ==
  [][(/\ errorHandler = "breaker"
      /\ Attempt
      /\ successfulCollections' = successfulCollections + 1)
       => cb' = recordSuccessOn(cb)]_vars

\* ---------------------------------------------------------------------
\* Concurrent callers of the breaker.  CircuitBreakerErrorHandler has no
\* mutex, so the reads and writes of recordFailure made by several
\* goroutines interleave one memory access at a time.
\* ---------------------------------------------------------------------

\* One goroutine per failure, as many as the failure threshold.
Racers == 1..failureThreshold

\* Every goroutine is about to call HandleError on the shared breaker.
NewRacers == [g \in Racers |-> [pc |-> "call", tmp |-> 0]]

\* cb.lastFailure = time.Now(); switch cb.state
FailureSwitch(g) ==
  /\ racers[g].pc = "call"
  /\ LET b1 == [cb EXCEPT !.lastFailure = <<clock>>]
     IN CASE cb.state = "closed" ->
               /\ cb' = b1
               /\ racers' = [racers EXCEPT ![g].pc = "load"]
          [] cb.state = "half_open" ->
               /\ cb' = openCircuit(b1)
               /\ racers' = [racers EXCEPT ![g].pc = "done"]
          [] OTHER ->
               /\ cb' = b1
               /\ racers' = [racers EXCEPT ![g].pc = "done"]
  /\ UNCHANGED notRace

\* cb.failureCount++ : the load
FailureLoad(g) ==
  /\ racers[g].pc = "load"
  /\ racers' = [racers EXCEPT ![g] = [pc |-> "store",
                                      tmp |-> cb.failureCount]]
  /\ UNCHANGED cb
  /\ UNCHANGED notRace

\* cb.failureCount++ : the store of the loaded value plus one
FailureStore(g) ==
  /\ racers[g].pc = "store"
  /\ cb' = [cb EXCEPT !.failureCount = racers[g].tmp + 1]
  /\ racers' = [racers EXCEPT ![g] = [pc |-> "check",
                                      tmp |-> racers[g].tmp + 1]]
  /\ UNCHANGED notRace

\* if cb.failureCount >= cb.failureThreshold { cb.openCircuit() }, the
\* count being either read again from memory or kept in a register
FailureCheck(g) ==
  /\ racers[g].pc = "check"
  /\ \E seen \in {cb.failureCount, racers[g].tmp} :
       cb' = IF seen >= failureThreshold THEN openCircuit(cb) ELSE cb
  /\ racers' = [racers EXCEPT ![g].pc = "done"]
  /\ UNCHANGED notRace

RaceInit ==
  /\ NewMetricScheduler(ValidConfig)
  /\ NewBaseCollector("breaker", 0)
  /\ NewManager
  /\ ask = NoAsk
  /\ threads = <<>>
  /\ racers = NewRacers

RaceNext ==
  \/ \E g \in Racers : FailureSwitch(g)
  \/ \E g \in Racers : FailureLoad(g)
  \/ \E g \in Racers : FailureStore(g)
  \/ \E g \in Racers : FailureCheck(g)

RaceSpec == RaceInit /\ [][RaceNext]_vars

\* C32: the breaker is safe for concurrent use: failureThreshold
\* concurrent failure recordings on a closed breaker with count 0 leave it
\* open, with every one of them counted, as any serial order would.
C32_NoLostFailure ==
  (\A g \in Racers : racers[g].pc = "done")
    => cb.state = "open"

\* ---------------------------------------------------------------------
\* Locks.  Goroutines inside ScheduleCollector, the result block of
\* executeJob and CollectorRegistry.Unregister, with the locks each holds:
\* "s.mu" of the scheduler, and the registry's RWMutex held for reading
\* ("r.mu:R") or writing ("r.mu:W").  calling names the other component a
\* goroutine is inside of.
\* ---------------------------------------------------------------------

Threads == 1..MaxThreads

LockedOps == {"ScheduleCollector", "executeJob", "Unregister"}

Outside == [op |-> "none", pc |-> "idle", held |-> {}, calling |-> "none"]

\* The operation has returned, every lock given back.
GaveBack(op) == [Outside EXCEPT !.op = op, !.pc = "returned"]

\* s.mu.Lock() can be taken
SchedulerMuFree == \A u \in Threads : "s.mu" \notin threads[u].held

\* r.mu.RLock() can be taken
RegistryMuReadable == \A u \in Threads : "r.mu:W" \notin threads[u].held

\* r.mu.Lock() can be taken
RegistryMuFree ==
  \A u \in Threads : threads[u].held \cap {"r.mu:R", "r.mu:W"} = {}

\* A goroutine calls one of the three operations.
EnterOp(t, op) ==
  /\ threads[t].pc \in {"idle", "returned"}
  /\ threads' = [threads EXCEPT ![t] = [Outside EXCEPT !.op = op,
                                                      !.pc = "entry"]]
  /\ UNCHANGED notLock

\* s.mu.Lock() at the top of ScheduleCollector and before the result block
\* of executeJob
SchedulerLock(t) ==
  /\ threads[t].pc = "entry"
  /\ threads[t].op \in {"ScheduleCollector", "executeJob"}
  /\ SchedulerMuFree
  /\ threads' = [threads EXCEPT ![t].held = @ \cup {"s.mu"},
                                ![t].pc = "locked"]
  /\ UNCHANGED notLock

\* s.registry.Get(collectorName): Get takes r.mu.RLock()
CallRegistryGet(t) ==
  /\ threads[t].pc = "locked"
  /\ threads[t].op = "ScheduleCollector"
  /\ RegistryMuReadable
  /\ threads' = [threads EXCEPT ![t].held = @ \cup {"r.mu:R"},
                                ![t].calling = "registry",
                                ![t].pc = "called"]
  /\ UNCHANGED notLock

\* Get returns: its deferred r.mu.RUnlock()
RegistryGetReturns(t) ==
  /\ threads[t].pc = "called"
  /\ threads[t].op = "ScheduleCollector"
  /\ threads' = [threads EXCEPT ![t].held = @ \ {"r.mu:R"},
                                ![t].calling = "none",
                                ![t].pc = "back"]
  /\ UNCHANGED notLock

\* s.processor.ProcessError / s.processor.ProcessResult
CallProcessor(t) ==
  /\ threads[t].pc = "locked"
  /\ threads[t].op = "executeJob"
  /\ threads' = [threads EXCEPT ![t].calling = "processor",
                                ![t].pc = "called"]
  /\ UNCHANGED notLock

ProcessorReturns(t) ==
  /\ threads[t].pc = "called"
  /\ threads[t].op = "executeJob"
  /\ threads' = [threads EXCEPT ![t].calling = "none", ![t].pc = "back"]
  /\ UNCHANGED notLock

\* s.mu.Unlock(): deferred in ScheduleCollector, the last statement of
\* executeJob
SchedulerUnlock(t) ==
  /\ threads[t].pc = "back"
  /\ threads[t].op \in {"ScheduleCollector", "executeJob"}
  /\ threads' = [threads EXCEPT ![t] = GaveBack(threads[t].op)]
  /\ UNCHANGED notLock

\* r.mu.Lock() at the top of Unregister
RegistryLock(t) ==
  /\ threads[t].pc = "entry"
  /\ threads[t].op = "Unregister"
  /\ RegistryMuFree
  /\ threads' = [threads EXCEPT ![t].held = @ \cup {"r.mu:W"},
                                ![t].pc = "locked"]
  /\ UNCHANGED notLock

\* collector.Stop(context.Background())
CallCollectorStop(t) ==
  /\ threads[t].pc = "locked"
  /\ threads[t].op = "Unregister"
  /\ threads' = [threads EXCEPT ![t].calling = "collector",
                                ![t].pc = "called"]
  /\ UNCHANGED notLock

CollectorStopReturns(t) ==
  /\ threads[t].pc = "called"
  /\ threads[t].op = "Unregister"
  /\ threads' = [threads EXCEPT ![t].calling = "none", ![t].pc = "back"]
  /\ UNCHANGED notLock

\* the deferred r.mu.Unlock() of Unregister
RegistryUnlock(t) ==
  /\ threads[t].pc = "back"
  /\ threads[t].op = "Unregister"
  /\ threads' = [threads EXCEPT ![t] = GaveBack(threads[t].op)]
  /\ UNCHANGED notLock

LockInit ==
  /\ NewMetricScheduler(ValidConfig)
  /\ NewBaseCollector("default", 0)
  /\ NewManager
  /\ ask = NoAsk
  /\ racers = <<>>
  /\ threads = [t \in Threads |-> Outside]

LockNext ==
  \/ \E t \in Threads, op \in LockedOps : EnterOp(t, op)
  \/ \E t \in Threads : SchedulerLock(t)
  \/ \E t \in Threads : CallRegistryGet(t)
  \/ \E t \in Threads : RegistryGetReturns(t)
  \/ \E t \in Threads : CallProcessor(t)
  \/ \E t \in Threads : ProcessorReturns(t)
  \/ \E t \in Threads : SchedulerUnlock(t)
  \/ \E t \in Threads : RegistryLock(t)
  \/ \E t \in Threads : CallCollectorStop(t)
  \/ \E t \in Threads : CollectorStopReturns(t)
  \/ \E t \in Threads : RegistryUnlock(t)

LockSpec == LockInit /\ [][LockNext]_vars

\* C33: no goroutine holds more than one lock at a time, and a call into
\* another component is made with the caller's own lock released: the
\* scheduler is never inside the Registry or a job processor with s.mu
\* held, and the Registry is never inside a collector with r.mu held.
C33_NoLockAcrossCalls ==
  \A t \in Threads :
    /\ Cardinality(threads[t].held) <= 1
    /\ threads[t].calling \in {"registry", "processor"}
         => "s.mu" \notin threads[t].held
    /\ threads[t].calling = "collector"
         => threads[t].held \cap {"r.mu:R", "r.mu:W"} = {}

\* C34: once the context RunChecks was given is cancelled, RunChecks does
\* not wait for the checks that have not returned: it does not sit on m.mu
\* while some are outstanding, so a GetHealth call made meanwhile can take
\* its read lock.
C34_CancelledRunDoesNotBlock ==
  \A o \in Owners :
    (RunCtxDone(o) /\ runs[o].pending # {}) => mu # o

\* ---------------------------------------------------------------------
\* The scheduler started again after a Stop that returned nil.
\* ---------------------------------------------------------------------

\* Start on a scheduler that Stop has brought to "stopped".
Restart ==
  /\ status = "stopped"
  /\ Start

RestartNext ==
  \/ FirstStart
  \/ Restart
  \/ StopBegin
  \/ StopTimeout
  \/ StopFinal
  \/ \E i \in DOMAIN loops : LoopExit(i)
  \/ \E i \in DOMAIN loops : LoopTick(i)
  \/ \E i \in DOMAIN loops : LoopDispatch(i)
  \/ \E e \in Execs : ExecRegister(e)
  \/ \E e \in Execs : ExecFinish(e)
  \/ \E e \in Execs : ExecPanic(e)
  \/ \E e \in Execs : ExecCleanup(e)
  \/ \E e \in Execs : ExecRelease(e)
  \/ \E name \in CollectorNames, regions \in RegionLists,
        interval \in Intervals : ScheduleCollector(name, regions, interval)
  \/ \E name \in CollectorNames, region \in Regions :
        UnscheduleCollector(name, region)
  \/ CancelRootCtx
  \/ AdvanceClock

RestartSpec == Init /\ [][RestartNext]_vars

\* C35: the scheduler can be restarted: while its status is running and the
\* context given to Start is alive, also after a Stop that returned nil and
\* a further Start, the tick loop does not exit.
C35_RestartedLoopRuns ==
  [][\A i \in DOMAIN loops :
       (status = "running" /\ ~rootCtxDone) => ~LoopExit(i)]_vars

\* C36: the stuck-loop detector catches a dead loop: once the tick loop has
\* exited with the status still running and more than two tick intervals
\* have passed since the tick it was waiting for, Health returns an error,
\* also when the loop exited before its first tick.
C36_DeadLoopDetected ==
  \A i \in DOMAIN loops :
    (/\ status = "running"
     /\ i = Len(loops)
     /\ loops[i].pc = "exited"
     /\ now - loops[i].tickAt > 2 * config.TickInterval)
      => Health # "nil"

\* C37: the active-job count GetInfo reports is at most the number of
\* semaphore slots held, which is at most MaxConcurrentJobs: an execution
\* is in s.activeJobs only while it holds a slot.
C37_ActiveWithinSlots ==
  /\ GetInfo.ActiveJobs <= jobSemaphore
  /\ jobSemaphore <= config.MaxConcurrentJobs

\* Every slot is held and every holder is in s.activeJobs.
C37_Witness ==
  /\ config.MaxConcurrentJobs > 1
  /\ jobSemaphore = config.MaxConcurrentJobs
  /\ GetInfo.ActiveJobs = jobSemaphore

\* ---------------------------------------------------------------------
\* The health manager started again after Stop.
\* ---------------------------------------------------------------------

\* Start on a manager that was stopped and whose loop has returned, as
\* long as the loops have called RunChecks fewer than MaxLoopRuns times.
ManagerRestart ==
  /\ mCtxDone
  /\ hloop = "exited"
  /\ loopRuns < MaxLoopRuns
  /\ ManagerStart

HealthRestartNext ==
  \/ \E name \in CheckNames : RegisterChecker(name)
  \/ \E name \in CheckNames : UnregisterChecker(name)
  \/ RunChecks
  \/ \E o \in Owners, name \in CheckNames, st \in CheckOutcomes :
       CheckReturns(o, name, st)
  \/ \E o \in Owners : LockResults(o)
  \/ \E o \in Owners : StoreResult(o)
  \/ \E o \in Owners : EndRun(o)
  \/ GetHealth
  \/ ManagerFirstStart
  \/ ManagerRestart
  \/ ManagerStop
  \/ TickerFires
  \/ HealthLoopFirst
  \/ HealthLoopTick
  \/ HealthLoopDone

HealthRestartSpec == HealthInit /\ [][HealthRestartNext]_vars

\* C38: whenever IsRunning() is true the periodic loop of the manager is
\* alive (before its first run, inside RunChecks or waiting in its select),
\* also after a Stop followed by a new Start.
C38_RunningMeansAlive ==
  running => hloop \in {"first", "run", "select"}

\* C39: the breaker recovers when the dependency does: an execution of the
\* unit of work that succeeds while the breaker is open and its cooldown
\* has elapsed takes the breaker out of open, on its way to closed.
C39_SuccessLeavesOpen ==
  [][(/\ errorHandler = "breaker"
      /\ cb.state = "open"
      /\ CooldownElapsed(cb)
      /\ Attempt
      /\ successfulCollections' = successfulCollections + 1)
       => cb'.state # "open"]_vars

\* C40: every change of the breaker's state is one of closed->open,
\* open->half_open, half_open->closed and half_open->open; an open breaker
\* does not become closed without passing through half_open.
C40_OnlyFourTransitions ==
  [][cb'.state # cb.state
       => <<cb.state, cb'.state>> \in
            {<<"closed", "open">>, <<"open", "half_open">>,
             <<"half_open", "closed">>, <<"half_open", "open">>}]_vars
====
